---- MODULE Spec2Model ----
(***************************************************************************)
(* Model of src/src/solver/quantum.py: the cost model (get_cost,           *)
(* get_avg_cost), the parameter codec (quantum_loop, adiabatic_sequence),  *)
(* the multi-start driver (VQAA) and the solution extractor (solver_VQAA). *)
(*                                                                         *)
(* Real numbers are modelled exactly: a cost is an integer or a reduced    *)
(* fraction, a control parameter is an integer number of tenths.  Floating *)
(* point rounding is not modelled.                                         *)
(***************************************************************************)
EXTENDS Integers, Sequences, FiniteSets, TLC

VARIABLES
  pc,                     \* position in the function being run
  G, bitstring, penalty,  \* arguments of get_cost / get_avg_cost
  cost,                   \* outcome of get_cost / get_avg_cost
  counts,                 \* a sample distribution: dict bitstring -> count
  parameters,             \* quantum_loop: the parameter vector (tenths)
  seq,                    \* quantum_loop: what reached the waveform builder
  qubit_ids,              \* atomic_register.qubit_ids
  ranges,                 \* VQAA: omega_range, detuning_range, time_range
  repetitions,            \* VQAA: number of restarts asked for
  testing, x0,            \* VQAA: restarts begun, current starting point
  scores, params,         \* VQAA: res.fun and res.x of every restart
  optimal_parameters,     \* VQAA's return value / opt_params
  number_best_solutions,  \* solver_VQAA: top-k
  counts_sorted, solution \* solver_VQAA: ranked distribution, decoded sets

costVars == <<G, bitstring, penalty, cost>>
codecVars == <<parameters, seq>>
vqaaVars == <<ranges, repetitions, testing, x0, scores, params>>
solverVars == <<number_best_solutions, counts_sorted, solution>>
vars == <<pc, costVars, counts, codecVars, qubit_ids, vqaaVars,
          optimal_parameters, solverVars>>

\* ------------------------------------------------------------------ bounds
\* largest graph given to get_cost
MaxNodes == 3
\* largest register / graph of a sampled distribution
MaxQubits == 2
\* most entries of a distribution given to get_avg_cost
MaxAvgEntries == 2
\* most distinct bitstrings of a sampled distribution
MaxEntries == 3

\* penalty values tried (the code accepts any number)
PenaltyVals == {-1, 0, 10}

\* ----------------------------------------------------------------- helpers
RECURSIVE SumTo(_, _)
SumTo(f, n) == IF n = 0 THEN 0 ELSE f[n] + SumTo(f, n - 1)
\* sum of the elements of a sequence
SumSeq(f) == SumTo(f, Len(f))

\* an undirected graph on nodes 1..n; an edge is <<i, j>> with i <= j
\* (i = j: a self-loop)
Pairs(n) == {e \in (1..n) \X (1..n) : e[1] <= e[2]}
Graphs(n) == {[n |-> n, edges |-> E] : E \in SUBSET Pairs(n)}
AllGraphs == UNION {Graphs(n) : n \in 1..MaxNodes}

\* bitstrings of length n, as sequences of 0/1
BitStrings(n) == [1..n -> {0, 1}]

\* outcomes of a call: a value or a raised exception
\* (kind "value": the number num/den; "nan": numpy's nan; "raise": exc)
Value(v) == [kind |-> "value", exc |-> "", num |-> v, den |-> 1]
NaN == [kind |-> "nan", exc |-> "", num |-> 0, den |-> 1]
Raise(e) == [kind |-> "raise", exc |-> e, num |-> 0, den |-> 1]
NoResult == [kind |-> "pending", exc |-> "", num |-> 0, den |-> 1]

\* -------------------------------------------------------------- cost model
\* nx.adjacency_matrix(G).todense(): symmetric 0/1 matrix, a self-loop is 1
\* on the diagonal
adjacency_matrix(g) ==
  [i \in 1..g.n |-> [j \in 1..g.n |->
     IF <<i, j>> \in g.edges \/ <<j, i>> \in g.edges THEN 1 ELSE 0]]

\* np.triu(A): the entries on and above the diagonal, 0 below
triu_full(A) == A
triu(A) ==
  [i \in DOMAIN A |-> [j \in DOMAIN A[i] |-> IF i <= j THEN A[i][j] ELSE 0]]

\* z.T @ M @ z for a vector and a square matrix of the same size
quad(z, M) ==
  SumSeq([i \in DOMAIN M |->
            SumSeq([j \in DOMAIN M |-> z[i] * M[i][j] * z[j]])])

\* np.sum(z)
np_sum(z) == SumSeq(z)

\* get_cost without the shape rule of @: the bits beyond the matrix are
\* dropped, the missing ones read as 0
get_cost_unchecked(bits, g, p) ==
  LET z == [i \in 1..g.n |-> IF i <= Len(bits) THEN bits[i] ELSE 0]
  IN  Value(p * quad(z, triu(adjacency_matrix(g))) - np_sum(bits))

\* get_cost(bitstring, G, penalty); the matrix product raises numpy's
\* ValueError when the vector's length is not the matrix's size
get_cost(bits, g, p) ==
  LET z == bits
      A == adjacency_matrix(g)
  IN  IF Len(z) # g.n
        THEN Raise("ValueError")
        ELSE Value(p * quad(z, triu(A)) - np_sum(z))

\* a sample distribution (a dict, in insertion order): a sequence of
\* <<bitstring, count>> entries with distinct keys
DistinctKeys(d) == \A i, j \in DOMAIN d : d[i][1] = d[j][1] => i = j
Dists(keys, vals, maxLen) ==
  UNION {{d \in [1..k -> keys \X vals] : DistinctKeys(d)} : k \in 0..maxLen}

RECURSIVE GCD(_, _)
GCD(a, b) == IF b = 0 THEN a ELSE GCD(b, a % b)
Abs(a) == IF a < 0 THEN -a ELSE a
\* the number a / b, b > 0, as a reduced fraction
Frac(a, b) ==
  LET g == GCD(Abs(a), b)
  IN  [kind |-> "value", exc |-> "", num |-> a \div g, den |-> b \div g]

\* the weighted sum divided by the number of entries instead of the number
\* of samples
get_avg_cost_per_entry(cnts, g, p) ==
  LET costs == [i \in DOMAIN cnts |-> get_cost(cnts[i][1], g, p)]
      avg_cost == SumSeq([i \in DOMAIN cnts |-> cnts[i][2] * costs[i].num])
  IN  IF \E i \in DOMAIN cnts : costs[i].kind = "raise"
        THEN Raise("ValueError")
        ELSE IF cnts = <<>> THEN Raise("ZeroDivisionError")
        ELSE Frac(avg_cost, Len(cnts))

\* get_avg_cost(counts, G, penalty_term).  The weighted sum is taken first
\* (a get_cost that raises ends the call there), then divided by the total:
\* an empty dict divides the int 0 by 0 (ZeroDivisionError); a non-empty dict
\* of zero counts divides numpy's 0 by 0, which yields nan and a warning.
get_avg_cost(cnts, g, p) ==
  LET costs == [i \in DOMAIN cnts |-> get_cost(cnts[i][1], g, p)]
      avg_cost == SumSeq([i \in DOMAIN cnts |-> cnts[i][2] * costs[i].num])
      total == SumSeq([i \in DOMAIN cnts |-> cnts[i][2]])
  IN  IF \E i \in DOMAIN cnts : costs[i].kind = "raise"
        THEN Raise("ValueError")
        ELSE IF total = 0
          THEN IF cnts = <<>> THEN Raise("ZeroDivisionError") ELSE NaN
          ELSE Frac(avg_cost, total)

\* ---------------------------------------------------------- parameter codec
\* params.astype(int) on one component, given in tenths: C truncation
\* toward zero
astype_int(t) == IF t >= 0 THEN t \div 10 ELSE -((-t) \div 10)

\* np.reshape(params.astype(int), 3): every component is cast
quantum_loop_cast(p) ==
  [time |-> astype_int(p[1]), omega |-> astype_int(p[2]),
   detuning |-> astype_int(p[3])]

\* the two InterpolatedWaveform calls of adiabatic_sequence: the duration,
\* the amplitude anchors [1e-9, Omega, 1e-9] (1e-9 written 0) and the
\* detuning anchors [delta_0, 0, delta_f], delta_0 = -detuning,
\* delta_f = -delta_0
adiabatic_pulse(time, Omega, detuning) ==
  LET delta_0 == -detuning
      delta_f == -delta_0
  IN  [built |-> TRUE, duration |-> time, amplitude |-> <<0, Omega, 0>>,
       detuning |-> <<delta_0, 0, delta_f>>]
NoSeq == [built |-> FALSE, duration |-> 0, amplitude |-> <<0, 0, 0>>,
          detuning |-> <<0, 0, 0>>]

\* what sample_final_state may return for a register of n qubits: a
\* non-empty dict of positive counts over n-bit strings
SampleCountVals == {300, 700}
SamplerOutputs(n) ==
  Dists(BitStrings(n), SampleCountVals, MaxEntries) \ {<<>>}

\* ------------------------------------------------------- multi-start driver
PosInf == [kind |-> "inf", exc |-> "", num |-> 1, den |-> 1]
NegInf == [kind |-> "inf", exc |-> "", num |-> -1, den |-> 1]

\* a >= b on floats: false when either is nan
float_ge(a, b) ==
  IF a.kind = "nan" \/ b.kind = "nan" THEN FALSE
  ELSE IF a.kind = "inf" THEN a.num = 1 \/ (b.kind = "inf" /\ b.num = -1)
  ELSE IF b.kind = "inf" THEN b.num = -1
  ELSE a.num * b.den >= b.num * a.den

RECURSIVE argmin_scan(_, _, _)
\* the scan of np.argmin: a later element replaces the minimum when it is
\* not >= it; the scan stops at the first nan
argmin_scan(s, i, best) ==
  IF i > Len(s) \/ s[best].kind = "nan" THEN best
  ELSE IF ~float_ge(s[i], s[best]) THEN argmin_scan(s, i + 1, i)
  ELSE argmin_scan(s, i + 1, best)

RECURSIVE argmin_last_scan(_, _, _)
argmin_last_scan(s, i, best) ==
  IF i > Len(s) \/ s[best].kind = "nan" THEN best
  ELSE IF float_ge(s[best], s[i]) \/ s[i].kind = "nan"
    THEN argmin_last_scan(s, i + 1, i)
  ELSE argmin_last_scan(s, i + 1, best)
\* an argmin that keeps the last of several equal minima
argmin_last(s) == argmin_last_scan(s, 2, 1)

\* np.argmin(scores) on a non-empty list, as a 1-based index
argmin(s) == argmin_scan(s, 2, 1)

\* np.random.uniform(lo, hi), in tenths: some points of [lo, hi)
uniform(lo, hi) == {10 * lo, 5 * (lo + hi), 10 * hi - 1}
\* np.random.randint(lo, hi): an integer of [lo, hi)
randint(lo, hi) == lo..(hi - 1)

\* starting points with the time left in the units of time_range
StartingPointsUnscaled(rg) ==
  {<<10 * t, o, d>> :
     t \in randint(rg.time[1], rg.time[2]),
     o \in uniform(rg.omega[1], rg.omega[2]),
     d \in uniform(rg.detuning[1], rg.detuning[2])}

\* lines 110-112 and 117: x0 = np.r_[random_time, random_omega,
\* random_detuning] with random_time = 1000 * randint(time_range), in tenths
StartingPoints(rg) ==
  {<<10 * (1000 * t), o, d>> :
     t \in randint(rg.time[1], rg.time[2]),
     o \in uniform(rg.omega[1], rg.omega[2]),
     d \in uniform(rg.detuning[1], rg.detuning[2])}

\* ------------------------------------------------------- solution extractor
RECURSIVE insert_asc(_, _)
insert_asc(x, srt) ==
  IF srt = <<>> THEN <<x>>
  ELSE IF Head(srt)[2] <= x[2] THEN <<Head(srt)>> \o insert_asc(x, Tail(srt))
  ELSE <<x>> \o srt
RECURSIVE sorted_asc_from(_, _)
sorted_asc_from(items, srt) ==
  IF items = <<>> THEN srt
  ELSE sorted_asc_from(Tail(items), insert_asc(Head(items), srt))
\* the sort without reverse=True
sorted_by_count_asc(items) == sorted_asc_from(items, <<>>)

RECURSIVE insert_desc(_, _)
\* x goes after every entry whose count is >= its own (the sort is stable)
insert_desc(x, srt) ==
  IF srt = <<>> THEN <<x>>
  ELSE IF Head(srt)[2] >= x[2]
    THEN <<Head(srt)>> \o insert_desc(x, Tail(srt))
  ELSE <<x>> \o srt
RECURSIVE sorted_desc_from(_, _)
sorted_desc_from(items, srt) ==
  IF items = <<>> THEN srt
  ELSE sorted_desc_from(Tail(items), insert_desc(Head(items), srt))

\* dict(sorted(counts.items(), key=lambda item: item[1], reverse=True))
sorted_by_count(items) == sorted_desc_from(items, <<>>)

RECURSIVE decode_from(_, _, _)
\* lines 183-188: walk the bits with element = 0, 1, ...; a bit 1 appends
\* qubit_ids[element]
decode_from(item, element, ids) ==
  IF element > Len(item) THEN <<>>
  ELSE (IF item[element] = 1 THEN <<ids[element]>> ELSE <<>>)
         \o decode_from(item, element + 1, ids)
decode(item, ids) == decode_from(item, 1, ids)

\* islice(counts_sorted, k): the first k keys, fewer when there are fewer
islice(items, k) ==
  [i \in 1..(IF k < Len(items) THEN k ELSE Len(items)) |-> items[i][1]]

\* lines 178-189: one decoded solution per key taken
decode_solutions(srt, k, ids) ==
  LET keys == islice(srt, k)
  IN  [i \in DOMAIN keys |-> decode(keys[i], ids)]

\* ------------------------------------------------- specification: get_cost
\* values of the variables a specification does not use
IdleCost == G = [n |-> 1, edges |-> {}] /\ bitstring = <<>> /\ penalty = 0
               /\ cost = NoResult
IdleCodec == parameters = <<0, 0, 0>> /\ seq = NoSeq
IdleVQAA == /\ ranges = [omega |-> <<1, 5>>, detuning |-> <<1, 5>>,
                         time |-> <<8, 25>>]
            /\ repetitions = 0 /\ testing = <<>> /\ x0 = <<>>
            /\ scores = <<>> /\ params = <<>>
IdleSolver == number_best_solutions = 0 /\ counts_sorted = <<>>
                 /\ solution = <<>>

InitCost ==
  /\ pc = "call"
  /\ G \in AllGraphs
  /\ bitstring \in UNION {BitStrings(n) : n \in 0..(MaxNodes + 1)}
  /\ penalty \in PenaltyVals
  /\ cost = NoResult
  /\ counts = <<>> /\ qubit_ids = <<>> /\ optimal_parameters = <<>>
  /\ IdleCodec /\ IdleVQAA /\ IdleSolver

CallGetCost ==
  /\ pc = "call"
  /\ cost' = get_cost(bitstring, G, penalty)
  /\ pc' = "done"
  /\ UNCHANGED <<G, bitstring, penalty, counts, codecVars, qubit_ids,
                 vqaaVars, optimal_parameters, solverVars>>

NextCost == CallGetCost

SpecCost == InitCost /\ [][NextCost]_vars

\* --------------------------------------------- specification: get_avg_cost
\* counts tried for an entry of a distribution given to get_avg_cost
AvgCountVals == {0, 1, 500}
\* penalties tried with a distribution
AvgPenaltyVals == {0, 10}
SimpleGraphs ==
  {g \in UNION {Graphs(n) : n \in 1..MaxQubits} :
     \A e \in g.edges : e[1] # e[2]}

InitAvg ==
  /\ pc = "call"
  /\ G \in SimpleGraphs
  /\ penalty \in AvgPenaltyVals
  /\ counts \in Dists(BitStrings(G.n) \cup {<<>>}, AvgCountVals,
                      MaxAvgEntries)
  /\ bitstring = <<>> /\ cost = NoResult
  /\ qubit_ids = <<>> /\ optimal_parameters = <<>>
  /\ IdleCodec /\ IdleVQAA /\ IdleSolver

CallGetAvgCost ==
  /\ pc = "call"
  /\ cost' = get_avg_cost(counts, G, penalty)
  /\ pc' = "done"
  /\ UNCHANGED <<G, bitstring, penalty, counts, codecVars, qubit_ids,
                 vqaaVars, optimal_parameters, solverVars>>

NextAvg == CallGetAvgCost

SpecAvg == InitAvg /\ [][NextAvg]_vars

\* --------------------------------------------- specification: quantum_loop
\* parameter vectors tried, in tenths: (time, amplitude, detuning)
TimeVals == {-15, 0, 9, 25, 80009}
AmplitudeVals == {10, 27, 32}
DetuningVals == {-25, 20, 39}

InitCodec ==
  /\ pc = "quantum_loop"
  /\ parameters \in TimeVals \X AmplitudeVals \X DetuningVals
  /\ seq = NoSeq
  /\ qubit_ids = <<"A", "B">>
  /\ counts = <<>> /\ optimal_parameters = <<>>
  /\ IdleCost /\ IdleVQAA /\ IdleSolver

\* quantum_loop lines 76-85 and adiabatic_sequence lines 56-63: the cast,
\* then the waveforms are built from the cast values with no check of the
\* codec's own; the external builder accepts or rejects them
EncodePulse ==
  /\ pc = "quantum_loop"
  /\ LET c == quantum_loop_cast(parameters)
     IN  seq' = adiabatic_pulse(c.time, c.omega, c.detuning)
  /\ pc' \in {"sequence", "raised"}
  /\ UNCHANGED <<costVars, counts, parameters, qubit_ids, vqaaVars,
                 optimal_parameters, solverVars>>

\* adiabatic_sequence lines 65-69: Sequence, declare_channel, add
BuildSequence ==
  /\ pc = "sequence"
  /\ pc' \in {"emulate", "raised"}
  /\ UNCHANGED <<costVars, counts, codecVars, qubit_ids, vqaaVars,
                 optimal_parameters, solverVars>>

\* quantum_loop lines 87-92: emulate and sample 1000 times
SampleFinalState ==
  /\ pc = "emulate"
  /\ \/ /\ counts' \in SamplerOutputs(Len(qubit_ids))
        /\ pc' = "returned"
     \/ /\ counts' = counts
        /\ pc' = "raised"
  /\ UNCHANGED <<costVars, codecVars, qubit_ids, vqaaVars,
                 optimal_parameters, solverVars>>

NextCodec == EncodePulse \/ BuildSequence \/ SampleFinalState

SpecCodec == InitCodec /\ [][NextCodec]_vars

\* ----------------------------------------------------- specification: VQAA
\* most restarts asked for
MaxReps == 2
\* ranges tried: (omega_range, detuning_range, time_range)
RangeConfigs ==
  {[omega |-> <<1, 5>>, detuning |-> <<2, 5>>, time |-> <<8, 10>>],
   [omega |-> <<2, 3>>, detuning |-> <<1, 5>>, time |-> <<20, 21>>]}
\* what minimize may return: res.x (tenths) and res.fun
ResX == {<<80009, 27, 39>>, <<251234, 10, -5>>}
ResFun == {Frac(-3, 2), Value(-2), Value(4), PosInf, NegInf, NaN}

InitVQAA ==
  /\ pc = "vqaa_loop"
  /\ ranges \in RangeConfigs
  /\ repetitions \in 0..MaxReps
  /\ testing = <<>> /\ x0 = <<>> /\ scores = <<>> /\ params = <<>>
  /\ optimal_parameters = <<>>
  /\ qubit_ids = <<"A", "B">>
  /\ counts = <<>>
  /\ IdleCost /\ IdleCodec /\ IdleSolver

\* lines 108-112: the next repetition of the loop draws its starting point
VQAADraw ==
  /\ pc = "vqaa_loop"
  /\ Len(scores) < repetitions
  /\ testing' = Append(testing, Len(scores))
  /\ x0' \in StartingPoints(ranges)
  /\ pc' = "minimize"
  /\ UNCHANGED <<costVars, counts, codecVars, qubit_ids, ranges, repetitions,
                 scores, params, optimal_parameters, solverVars>>

\* lines 114-125: minimize(func, x0=...) returns some point and its cost,
\* which are appended, or an exception of func passes through
VQAAMinimize ==
  /\ pc = "minimize"
  /\ \/ \E x \in ResX, f \in ResFun :
          /\ scores' = Append(scores, f)
          /\ params' = Append(params, x)
          /\ pc' = "vqaa_loop"
     \/ /\ pc' = "raised"
        /\ UNCHANGED <<scores, params>>
  /\ UNCHANGED <<costVars, counts, codecVars, qubit_ids, ranges, repetitions,
                 testing, x0, optimal_parameters, solverVars>>

\* lines 127-129: after the loop, params[np.argmin(scores)] is returned
\* (np.argmin raises ValueError on the empty list of repetitions = 0)
VQAAReturn ==
  /\ pc = "vqaa_loop"
  /\ Len(scores) = repetitions
  /\ IF repetitions = 0
       THEN pc' = "raised" /\ UNCHANGED optimal_parameters
       ELSE /\ optimal_parameters' = params[argmin(scores)]
            /\ pc' = "vqaa_return"
  /\ UNCHANGED <<costVars, counts, codecVars, qubit_ids, vqaaVars,
                 solverVars>>

NextVQAA == VQAADraw \/ VQAAMinimize \/ VQAAReturn

SpecVQAA == InitVQAA /\ [][NextVQAA]_vars

\* ---------------------------------------------- specification: solver_VQAA
\* identifiers of the register's qubits, in register order
RegisterIds == <<"A", "B", "C", "D">>
\* number_best_solutions tried (5 is the default; -1 is refused by islice)
TopKVals == {-1, 0, 2, 5}
\* the ranges passed on to VQAA: the defaults of lines 137-138 and a short
\* time_range
SolverRanges ==
  [omega |-> <<1, 5>>, detuning |-> <<2, 5>>, time |-> <<8, 10>>]

InitSolver ==
  /\ pc = "vqaa_loop"
  /\ qubit_ids \in {[i \in 1..n |-> RegisterIds[i]] : n \in 1..MaxQubits}
  /\ number_best_solutions \in TopKVals
  /\ ranges = SolverRanges
  /\ repetitions \in 0..1
  /\ testing = <<>> /\ x0 = <<>> /\ scores = <<>> /\ params = <<>>
  /\ optimal_parameters = <<>>
  /\ counts = <<>> /\ counts_sorted = <<>> /\ solution = <<>>
  /\ IdleCost /\ IdleCodec

\* lines 163-172: VQAA returns into opt_params; its locals are gone
SolverVQAAReturned ==
  /\ pc = "vqaa_return"
  /\ testing' = <<>> /\ x0' = <<>> /\ scores' = <<>> /\ params' = <<>>
  /\ pc' = "final_sample"
  /\ UNCHANGED <<costVars, counts, codecVars, qubit_ids, ranges, repetitions,
                 optimal_parameters, solverVars>>

\* line 174: quantum_loop samples at the optimal parameters, or raises
SolverSample ==
  /\ pc = "final_sample"
  /\ \/ /\ counts' \in SamplerOutputs(Len(qubit_ids))
        /\ pc' = "rank"
     \/ /\ counts' = counts
        /\ pc' = "raised"
  /\ UNCHANGED <<costVars, codecVars, qubit_ids, vqaaVars,
                 optimal_parameters, solverVars>>

\* lines 176-191: rank by count, decode the first number_best_solutions
\* keys, return
SolverRank ==
  /\ pc = "rank"
  /\ counts_sorted' = sorted_by_count(counts)
  /\ IF number_best_solutions < 0
       THEN pc' = "raised" /\ UNCHANGED solution
       ELSE /\ solution' = decode_solutions(counts_sorted',
                                            number_best_solutions, qubit_ids)
            /\ pc' = "done"
  /\ UNCHANGED <<costVars, counts, codecVars, qubit_ids, vqaaVars,
                 optimal_parameters, number_best_solutions>>

NextSolver ==
  \/ VQAADraw \/ VQAAMinimize \/ VQAAReturn
  \/ SolverVQAAReturned \/ SolverSample \/ SolverRank

SpecSolver == InitSolver /\ [][NextSolver]_vars

\* ------------------------------------------------------------------ claims
SelectedEdges(z, g) == {e \in g.edges : z[e[1]] = 1 /\ z[e[2]] = 1}
Ones(z) == {i \in DOMAIN z : z[i] = 1}

\* C1: for a bitstring of the graph's size, get_cost is penalty times the
\* number of edges with both endpoints selected minus the number of 1 bits;
\* -sum(z) on an edgeless graph and 0 on the all-zero bitstring.
C1_CostFormula ==
  (pc = "done" /\ Len(bitstring) = G.n) =>
     /\ cost = Value(penalty * Cardinality(SelectedEdges(bitstring, G))
                     - Cardinality(Ones(bitstring)))
     /\ (G.edges = {} => cost = Value(-Cardinality(Ones(bitstring))))
     /\ (Ones(bitstring) = {} => cost = Value(0))

C1_Witness ==
  /\ pc = "done"
  /\ Len(bitstring) = G.n
  /\ Cardinality(SelectedEdges(bitstring, G)) >= 2
  /\ G.edges \ SelectedEdges(bitstring, G) # {}
  /\ penalty = 10

\* C7: a bitstring whose length differs from the number of nodes makes
\* get_cost raise at once (numpy's shape error) and yields no cost value.
C7_ShapeMismatchRaises ==
  (pc = "done" /\ Len(bitstring) # G.n) => (cost.kind = "raise" /\ cost.exc = "ValueError")

C7_Witness ==
  /\ pc = "done"
  /\ Len(bitstring) = G.n + 1
  /\ G.edges # {}
  /\ Ones(bitstring) # {}

RECURSIVE Total(_)
\* the number of samples of a distribution
Total(d) == IF d = <<>> THEN 0 ELSE Head(d)[2] + Total(Tail(d))
RECURSIVE WeightedCost(_, _, _)
\* sum over the entries of count times get_cost
WeightedCost(d, g, p) ==
  IF d = <<>> THEN 0
  ELSE Head(d)[2] * get_cost(Head(d)[1], g, p).num
         + WeightedCost(Tail(d), g, p)
\* factors by which a distribution's counts are scaled
ScaleFactors == {2, 3}
Scaled(d, k) == [i \in DOMAIN d |-> <<d[i][1], k * d[i][2]>>]
WellShaped(d, g) == \A i \in DOMAIN d : Len(d[i][1]) = g.n
Example500 ==
  /\ G = [n |-> 2, edges |-> {<<1, 2>>}]
  /\ penalty = 10
  /\ counts = << <<(<<0, 0>>), 500>>, <<(<<1, 1>>), 500>> >>

\* C2: for a distribution of positive total count (over bitstrings of the
\* graph's size) get_avg_cost is the count-weighted sum of get_cost divided
\* by the total count; scaling every count by the same positive factor
\* leaves it unchanged; {"00": 500, "11": 500} on the one-edge graph with
\* penalty 10 gives 4.
C2_WeightedMean ==
  (pc = "done" /\ Total(counts) > 0 /\ WellShaped(counts, G)) =>
     /\ cost.kind = "value"
     /\ cost.den > 0
     /\ cost.num * Total(counts) = cost.den * WeightedCost(counts, G, penalty)
     /\ \A k \in ScaleFactors :
          get_avg_cost(Scaled(counts, k), G, penalty) = cost
     /\ (Example500 => cost = Value(4))

C2_Witness == pc = "done" /\ Example500 /\ cost = Value(4)

\* C5: a distribution of total count zero makes get_avg_cost fail with
\* EmptyDistributionError, without dividing by zero.
C5_EmptyDistributionError ==
  (pc = "done" /\ Total(counts) = 0) =>
     (cost.kind = "raise" /\ cost.exc = "EmptyDistributionError")

\* C9: only time is cast to an integer; amplitude and detuning reach the
\* waveform builder with their real values, the detuning profile being
\* (-detuning, 0, +detuning).
C9_OnlyTimeIsCast ==
  seq.built =>
     /\ seq.duration = astype_int(parameters[1])
     /\ 10 * seq.amplitude[2] = parameters[2]
     /\ 10 * seq.detuning[3] = parameters[3]
     /\ seq.detuning[1] = -seq.detuning[3]
     /\ seq.detuning[2] = 0

\* C10: a time that is not strictly positive after the cast is rejected by
\* the codec before any waveform or sequence is built and before the
\* sampler is called.
C10_TimeValidated ==
  astype_int(parameters[1]) <= 0 =>
     /\ ~seq.built
     /\ pc \notin {"sequence", "emulate", "returned"}

\* the order of the costs that are numbers or infinite
Below(a, b) ==
  \/ a.kind = "inf" /\ a.num = -1 /\ ~(b.kind = "inf" /\ b.num = -1)
  \/ b.kind = "inf" /\ b.num = 1 /\ ~(a.kind = "inf" /\ a.num = 1)
  \/ a.kind = "value" /\ b.kind = "value" /\ a.num * b.den < b.num * a.den
NoNaN(s) == \A i \in DOMAIN s : s[i].kind # "nan"
IsEarliestMin(s, i) ==
  /\ \A j \in DOMAIN s : ~Below(s[j], s[i])
  /\ \A j \in 1..(i - 1) : Below(s[i], s[j])

C6_NoConvergenceError ==
  pc = "vqaa_return" => \E i \in DOMAIN scores : scores[i].kind = "value"

\* C8: the starting point handed to the optimizer is (time, amplitude,
\* detuning) with time = 1000 k, k an integer of time_range, amplitude in
\* omega_range and detuning in detuning_range; one is drawn per restart,
\* repetitions in all.
C8_StartingPoints ==
  /\ pc = "minimize" =>
       /\ Len(x0) = 3
       /\ \E k \in ranges.time[1]..(ranges.time[2] - 1) :
            x0[1] = 10 * (1000 * k)
       /\ 10 * ranges.omega[1] <= x0[2] /\ x0[2] <= 10 * ranges.omega[2]
       /\ 10 * ranges.detuning[1] <= x0[3]
       /\ x0[3] <= 10 * ranges.detuning[2]
       /\ Len(testing) = Len(scores) + 1
  /\ pc = "vqaa_loop" => Len(testing) = Len(scores)
  /\ pc = "vqaa_return" => Len(testing) = repetitions

C8_Witness ==
  /\ pc = "minimize"
  /\ Len(testing) = 2
  /\ x0[2] < 10 * ranges.detuning[1]

Entries(d) == {d[i] : i \in DOMAIN d}
Min(a, b) == IF a < b THEN a ELSE b
\* the register identifiers at the positions of the 1 bits, ascending
IsDecodingOf(sol, key, ids) ==
  LET P == Ones(key)
  IN  /\ Len(sol) = Cardinality(P)
      /\ \A m \in DOMAIN sol :
           \E p \in P : /\ Cardinality({q \in P : q < p}) = m - 1
                        /\ sol[m] = ids[p]
Example700 ==
  /\ qubit_ids = <<"A", "B">>
  /\ number_best_solutions = 2
  /\ Entries(counts) = {<<(<<1, 0>>), 700>>, <<(<<0, 1>>), 300>>}
  /\ Len(counts) = 2

\* C4: solver_VQAA returns the final distribution ordered by non-increasing
\* count and min(top_k, number of distinct bitstrings) decoded solutions,
\* the i-th being the register identifiers, in ascending position, at the
\* 1 bits of the i-th bitstring of that order; {"10": 700, "01": 300} over
\* [A, B] with top_k = 2 gives [[A], [B]].
C4_RankedDecoding ==
  pc = "done" =>
     /\ Len(counts_sorted) = Len(counts)
     /\ Entries(counts_sorted) = Entries(counts)
     /\ \A i, j \in DOMAIN counts_sorted :
          i < j => counts_sorted[i][2] >= counts_sorted[j][2]
     /\ Len(solution) = Min(number_best_solutions, Len(counts))
     /\ \A i \in DOMAIN solution :
          IsDecodingOf(solution[i], counts_sorted[i][1], qubit_ids)
     /\ Example700 => solution = << <<"A">>, <<"B">> >>

\* the example, sampled with "01" first so that ranking reorders it
C4_Witness ==
  /\ pc = "done"
  /\ Example700
  /\ counts[1] = <<(<<0, 1>>), 300>>
  /\ solution = << <<"A">>, <<"B">> >>

====
